---- MODULE Spec2Model ----
(***************************************************************************)
(* Model of librealsense's image pipeline core (src/src/image.cpp):        *)
(* the size oracle, the pixel codecs, image alignment and rectification.   *)
(*                                                                         *)
(* Every function of image.cpp is a synchronous call on caller buffers.    *)
(* A behaviour of this model is one call: Init draws the arguments, the    *)
(* actions are the call's entry, the iterations of its loops and its       *)
(* return.  Buffers are functions over 0-based indices, as in the code.    *)
(* Variables named after a parameter or local of the code model it; the    *)
(* variables `calls' and `writes' are history variables that record the    *)
(* transfer callbacks and the stores the code performs.                    *)
(***************************************************************************)
EXTENDS Integers, Sequences, FiniteSets, TLC

VARIABLES
    op,                 \* the function being called
    pc,                 \* position of the call
    build,              \* "debug": assert() is live; "release": NDEBUG, assert() is a no-op
    ret,                \* what the call handed back to its caller
    \* ---- size oracle
    width, height, tag,
    \* ---- pixel codecs
    mode,               \* subdevice_mode: width, height, fourcc, streams
    source,             \* the input frame, indexed by source element (macropixel or pixel)
    in,                 \* read pointer into source (element index)
    dest,               \* dest[p]: output plane p, indexed by pixel
    outp,               \* write pointer into the planes (a and b advance together)
    x, y,               \* loop counters of the codec loops
    writes,             \* history: sequence of <<plane, index>> stores
    bitfield_order,     \* implementation-defined allocation order of y12i_pixel's bit-fields
    \* ---- alignment and rectification
    depth_intrin,       \* width, height of the depth (or rectified) image
    other_intrin,       \* width, height of the other (or unrectified) image
    depth_to_other,     \* extrinsics
    depth_pixels, depth_scale,
    color_pixels,       \* bytes of the other image
    color_format,
    out,                \* the output buffer
    rectification_table,
    depth_x, depth_y, depth_pixel_index,
    calls,              \* history: sequence of <<depth_index, other_index>> transfers
    out0                \* history: the output buffer as the caller handed it in

sizevars  == <<width, height, tag>>
codecvars == <<mode, source, in, dest, outp, x, y, writes, bitfield_order>>
alignvars == <<depth_intrin, other_intrin, depth_to_other, depth_pixels, depth_scale,
               color_pixels, color_format, out, rectification_table,
               depth_x, depth_y, depth_pixel_index, calls, out0>>
vars == <<op, pc, build, ret, sizevars, codecvars, alignvars>>

Builds == {"debug", "release"}

\* The value of the variables a call does not use.
SizeIdle  == width = 0 /\ height = 0 /\ tag = ""
CodecIdle == /\ mode = [width |-> 0] /\ source = <<>> /\ in = 0 /\ dest = <<>>
             /\ outp = 0 /\ x = 0 /\ y = 0 /\ writes = <<>> /\ bitfield_order = ""
AlignIdle == /\ depth_intrin = [width |-> 0, height |-> 0]
             /\ other_intrin = [width |-> 0, height |-> 0]
             /\ depth_to_other = <<0, 0>> /\ depth_pixels = <<>> /\ depth_scale = 0
             /\ color_pixels = <<>> /\ color_format = "" /\ out = <<>>
             /\ rectification_table = <<>>
             /\ depth_x = 0 /\ depth_y = 0 /\ depth_pixel_index = 0 /\ calls = <<>> /\ out0 = <<>>

Max(a, b) == IF a > b THEN a ELSE b

(***************************************************************************)
(* Image size computation                                                  *)
(***************************************************************************)

\* Bounds of the size oracle's arguments.
MaxSizeW == 4
MaxSizeH == 3

\* rs_format: the closed set, and a value outside it.
Formats == {"Z16", "YUYV", "RGB8", "BGR8", "RGBA8", "BGRA8", "Y8", "Y16"}
FormatsOutside == {"ANY"}

\* What a call hands back: a returned value (or a plain return of a void function), or
\* the process aborted by a failed assert.
Return(v) == [kind |-> "return", value |-> v]
ReturnVoid == [kind |-> "return"]
Abort     == [kind |-> "abort"]

\* assert(cond); rest  -- in a debug build a failed assert aborts, in a release build
\* (NDEBUG) the assert is compiled out and execution continues.
AssertThen(b, cond, rest) == IF b = "debug" /\ ~cond THEN Abort ELSE rest

get_image_size_format(w, h, format, b) ==
    CASE format = "Z16"   -> Return(w * h * 2)
      [] format = "YUYV"  -> AssertThen(b, w % 2 = 0, Return(w * h * 2))
      [] format = "RGB8"  -> Return(w * h * 3)
      [] format = "BGR8"  -> Return(w * h * 3)
      [] format = "RGBA8" -> Return(w * h * 4)
      [] format = "BGRA8" -> Return(w * h * 4)
      [] format = "Y8"    -> Return(w * h)
      [] format = "Y16"   -> Return(w * h * 2)
      [] OTHER            -> AssertThen(b, FALSE, Return(0))

formats_inzi_as_single == <<
    [fourcc |-> "YUY2", macropixel_width |-> 2, macropixel_size |-> 4],
    [fourcc |-> "Z16 ", macropixel_width |-> 1, macropixel_size |-> 2],
    [fourcc |-> "Y8  ", macropixel_width |-> 1, macropixel_size |-> 1],
    [fourcc |-> "Y16 ", macropixel_width |-> 1, macropixel_size |-> 2],
    [fourcc |-> "Y8I ", macropixel_width |-> 1, macropixel_size |-> 2],
    [fourcc |-> "Y12I", macropixel_width |-> 1, macropixel_size |-> 3],
    [fourcc |-> "INVR", macropixel_width |-> 1, macropixel_size |-> 2],
    [fourcc |-> "INVZ", macropixel_width |-> 1, macropixel_size |-> 2],
    [fourcc |-> "INVI", macropixel_width |-> 1, macropixel_size |-> 1],
    [fourcc |-> "INRI", macropixel_width |-> 1, macropixel_size |-> 3],
    [fourcc |-> "INZI", macropixel_width |-> 1, macropixel_size |-> 4] >>

formats == <<
    [fourcc |-> "YUY2", macropixel_width |-> 2, macropixel_size |-> 4],
    [fourcc |-> "Z16 ", macropixel_width |-> 1, macropixel_size |-> 2],
    [fourcc |-> "Y8  ", macropixel_width |-> 1, macropixel_size |-> 1],
    [fourcc |-> "Y16 ", macropixel_width |-> 1, macropixel_size |-> 2],
    [fourcc |-> "Y8I ", macropixel_width |-> 1, macropixel_size |-> 2],
    [fourcc |-> "Y12I", macropixel_width |-> 1, macropixel_size |-> 3],
    [fourcc |-> "INVR", macropixel_width |-> 1, macropixel_size |-> 2],
    [fourcc |-> "INVZ", macropixel_width |-> 1, macropixel_size |-> 2],
    [fourcc |-> "INVI", macropixel_width |-> 1, macropixel_size |-> 1],
    [fourcc |-> "INRI", macropixel_width |-> 1, macropixel_size |-> 3],
    [fourcc |-> "INZI", macropixel_width |-> 2, macropixel_size |-> 4] >>

FourCCs == {formats[i].fourcc : i \in 1..Len(formats)}
FourCCsOutside == {"MJPG"}

\* for(auto & f : formats) { if(f.fourcc != fourcc) continue; assert(...); return ...; }
\* assert(false && "unsupported format"); return 0;
RECURSIVE get_image_size_from(_, _, _, _, _)
get_image_size_from(i, w, h, fourcc, b) ==
    IF i > Len(formats) THEN AssertThen(b, FALSE, Return(0))
    ELSE IF formats[i].fourcc # fourcc THEN get_image_size_from(i + 1, w, h, fourcc, b)
    ELSE AssertThen(b, w % formats[i].macropixel_width = 0,
                    Return((w \div formats[i].macropixel_width) * h * formats[i].macropixel_size))

get_image_size_fourcc(w, h, fourcc, b) == get_image_size_from(1, w, h, fourcc, b)

SizeInit ==
    /\ op \in {"get_image_size(format)", "get_image_size(fourcc)"}
    /\ pc = "call"
    /\ build \in Builds
    /\ width \in 0..MaxSizeW
    /\ height \in 0..MaxSizeH
    /\ tag \in IF op = "get_image_size(format)" THEN Formats \cup FormatsOutside
                                                 ELSE FourCCs \cup FourCCsOutside
    /\ ret = [kind |-> "none"]
    /\ CodecIdle /\ AlignIdle

GetImageSizeFormat ==
    /\ op = "get_image_size(format)" /\ pc = "call"
    /\ ret' = get_image_size_format(width, height, tag, build)
    /\ pc' = "done"
    /\ UNCHANGED <<op, build, width, height, tag, codecvars, alignvars>>

GetImageSizeFourcc ==
    /\ op = "get_image_size(fourcc)" /\ pc = "call"
    /\ ret' = get_image_size_fourcc(width, height, tag, build)
    /\ pc' = "done"
    /\ UNCHANGED <<op, build, width, height, tag, codecvars, alignvars>>

SizeNext == GetImageSizeFormat \/ GetImageSizeFourcc

SpecSize == SizeInit /\ [][SizeNext]_vars

C8_Pairs == [t \in {"YUY2", "Z16 ", "Y8  ", "Y16 ", "Y8I ", "Y12I",
                     "INVR", "INVZ", "INVI", "INRI", "INZI"} |->
    CASE t = "YUY2" -> <<2, 4>>
      [] t = "INZI" -> <<2, 4>>
      [] t \in {"Y12I", "INRI"} -> <<1, 3>>
      [] t \in {"Y8  ", "INVI"} -> <<1, 1>>
      [] OTHER -> <<1, 2>>]

\* C8: get_image_size(width, height, fourcc), for each of the 11 FourCC codes and
\* every width that is a multiple of the code's macropixel width, returns
\* (width / macropixel_width) * height * macropixel_bytes, with the pairs
\* YUY2 (2,4), Z16 (1,2), Y8 (1,1), Y16 (1,2), Y8I (1,2), Y12I (1,3), INVR (1,2),
\* INVZ (1,2), INVI (1,1), INRI (1,3), INZI (2,4).
C8_SizeOfFourcc ==
    /\ FourCCs = DOMAIN C8_Pairs
    /\ (op = "get_image_size(fourcc)" /\ pc = "done" /\ tag \in DOMAIN C8_Pairs
            /\ width % C8_Pairs[tag][1] = 0)
        => ret = [kind |-> "return",
                  value |-> (width \div C8_Pairs[tag][1]) * height * C8_Pairs[tag][2]]
C8_Witness ==
    /\ op = "get_image_size(fourcc)" /\ pc = "done" /\ tag = "INZI"
    /\ width = 4 /\ height = 3 /\ ret = [kind |-> "return", value |-> 24]

C9_Expected ==
    IF op = "get_image_size(format)"
    THEN IF tag \notin Formats THEN "UnsupportedFormat"
         ELSE IF tag = "YUYV" /\ width % 2 # 0 THEN "BadGeometry" ELSE "return"
    ELSE IF tag \notin FourCCs THEN "UnsupportedFormat"
         ELSE IF width % formats[CHOOSE i \in 1..Len(formats) : formats[i].fourcc = tag].macropixel_width # 0
              THEN "BadGeometry" ELSE "return"

\* C9: the size oracle reports an error instead of a size: UnsupportedFormat for a
\* pixel format or FourCC outside the closed set, BadGeometry when width is not a
\* multiple of the FourCC's macropixel width (and for YUYV of odd width); no byte
\* count is returned in these cases.
C9_ErrorsReported ==
    (op \in {"get_image_size(format)", "get_image_size(fourcc)"} /\ pc = "done")
        => ret.kind = C9_Expected

(***************************************************************************)
(* Pixel codecs                                                            *)
(***************************************************************************)

\* Bounds of the codec frames: input width and height.
MaxCodecW == 4
MaxCodecH == 3

\* Sample bytes of a Y12I pixel: the nibble and 10-bit boundaries.
ByteSamples == {0, 1, 15, 16, 63, 64, 240, 255}

RECURSIVE BitOr(_, _)
BitOr(a, b) == IF a = 0 THEN b ELSE IF b = 0 THEN a
               ELSE Max(a % 2, b % 2) + 2 * BitOr(a \div 2, b \div 2)
Shl(a, n) == a * 2^n
Shr(a, n) == a \div 2^n            \* arithmetic shift: rounds toward minus infinity
U16(v) == v % 65536                \* conversion to uint16_t

\* The lambdas handed to unpack_pixels.
unpack_y16_from_y8(pixel) == U16(BitOr(pixel, Shl(pixel, 8)))
unpack_y16_from_y16_10_halved(pixel) == U16(Shl(pixel, 5))
unpack_y16_from_y16_10(pixel) == U16(Shl(pixel, 6))

clamp_byte(v) == IF v < 0 THEN 0 ELSE IF v > 255 THEN 255 ELSE v
yuv_to_r(yy, u, v) == clamp_byte(Shr(128 + 298 * yy + 409 * v, 8))
yuv_to_g(yy, u, v) == clamp_byte(Shr(128 + 298 * yy - 100 * u - 208 * v, 8))
yuv_to_b(yy, u, v) == clamp_byte(Shr(128 + 298 * yy + 516 * u, 8))

\* The lambdas handed to unpack_from_yuy2, by decoder.
unpack_yuy2(o, yy, u, v) ==
    CASE o = "unpack_rgb_from_yuy2"  -> <<yuv_to_r(yy, u, v), yuv_to_g(yy, u, v), yuv_to_b(yy, u, v)>>
      [] o = "unpack_rgba_from_yuy2" -> <<yuv_to_r(yy, u, v), yuv_to_g(yy, u, v), yuv_to_b(yy, u, v), 255>>
      [] o = "unpack_bgr_from_yuy2"  -> <<yuv_to_b(yy, u, v), yuv_to_g(yy, u, v), yuv_to_r(yy, u, v)>>
      [] o = "unpack_bgra_from_yuy2" -> <<yuv_to_b(yy, u, v), yuv_to_g(yy, u, v), yuv_to_r(yy, u, v), 255>>

\* struct y12i_pixel { uint8_t rl : 8, rh : 4, ll : 4, lh : 8; } over the bytes <<b0, b1, b2>>.
\* rh and ll share the second byte; which nibble each takes is implementation-defined:
\* "lsb_first" allocates bit-fields from the least significant bit (rh is the low nibble),
\* "msb_first" from the most significant bit (rh is the high nibble).
y12i_pixel(bytes, order) ==
    [rl |-> bytes[1],
     rh |-> IF order = "lsb_first" THEN bytes[2] % 16 ELSE bytes[2] \div 16,
     ll |-> IF order = "lsb_first" THEN bytes[2] \div 16 ELSE bytes[2] % 16,
     lh |-> bytes[3]]
y12i_l(p) == BitOr(Shl(p.lh, 4), p.ll)
y12i_r(p) == BitOr(Shl(p.rh, 8), p.rl)

expand_10_to_16_shift_only(v) == U16(Shl(v, 6))
expand_10_to_16(v) == U16(BitOr(Shl(v, 6), Shr(v, 4)))

\* The lambdas handed to split_frame, by decoder.
split_a(o, s, order) ==
    CASE o = "unpack_y8_y8_from_y8i"       -> s.l
      [] o = "unpack_y16_y16_from_y12i_10" -> expand_10_to_16(y12i_l(y12i_pixel(s, order)))
      [] o = "unpack_z16_y8_from_inri"     -> s.z16
      [] o = "unpack_z16_y16_from_inri"    -> s.z16
split_b(o, s, order) ==
    CASE o = "unpack_y8_y8_from_y8i"       -> s.r
      [] o = "unpack_y16_y16_from_y12i_10" -> expand_10_to_16(y12i_r(y12i_pixel(s, order)))
      [] o = "unpack_z16_y8_from_inri"     -> s.y8
      [] o = "unpack_z16_y16_from_inri"    -> U16(BitOr(s.y8, Shl(s.y8, 8)))

PixelsOps == {"unpack_y16_from_y8", "unpack_y16_from_y16_10"}
Yuy2Ops   == {"unpack_rgb_from_yuy2", "unpack_rgba_from_yuy2",
              "unpack_bgr_from_yuy2", "unpack_bgra_from_yuy2"}
SplitOps  == {"unpack_y8_y8_from_y8i", "unpack_y16_y16_from_y12i_10",
              "unpack_z16_y8_from_inri", "unpack_z16_y16_from_inri"}
CodecOps  == PixelsOps \cup Yuy2Ops \cup SplitOps

\* What each decoder passes to its loop: the FourCC it decodes and the stream formats.
CodecFourcc(o) ==
    CASE o = "unpack_y16_from_y8" -> "Y8  "
      [] o = "unpack_y16_from_y16_10" -> "Y16 "
      [] o \in Yuy2Ops -> "YUY2"
      [] o = "unpack_y8_y8_from_y8i" -> "Y8I "
      [] o = "unpack_y16_y16_from_y12i_10" -> "Y12I"
      [] OTHER -> "INRI"
CodecStreamFormats(o) ==
    CASE o \in PixelsOps -> <<"Y16">>
      [] o = "unpack_rgb_from_yuy2"  -> <<"RGB8">>
      [] o = "unpack_rgba_from_yuy2" -> <<"RGBA8">>
      [] o = "unpack_bgr_from_yuy2"  -> <<"BGR8">>
      [] o = "unpack_bgra_from_yuy2" -> <<"BGRA8">>
      [] o = "unpack_y8_y8_from_y8i" -> <<"Y8", "Y8">>
      [] o = "unpack_y16_y16_from_y12i_10" -> <<"Y16", "Y16">>
      [] o = "unpack_z16_y8_from_inri" -> <<"Z16", "Y8">>
      [] o = "unpack_z16_y16_from_inri" -> <<"Z16", "Y16">>

\* ---- the frames the codecs are run on

MacropixelWidth(fourcc) ==
    formats[CHOOSE i \in 1..Len(formats) : formats[i].fourcc = fourcc].macropixel_width

\* Number of source elements (yuy2_macropixel, or pixel) of a width x height frame.
ElementCount(o, w, h) == (w \div MacropixelWidth(CodecFourcc(o))) * h

\* Element k of the test frame: every element differs from the others.
PatternElement(o, k) ==
    CASE o \in PixelsOps -> k + 1
      [] o \in Yuy2Ops   -> [y0 |-> 30 + 16 * k, u |-> 128 + 3 * k, y1 |-> 38 + 16 * k, v |-> 128 - 2 * k]
      [] o = "unpack_y8_y8_from_y8i" -> [l |-> 2 * k + 1, r |-> 2 * k + 2]
      [] o = "unpack_y16_y16_from_y12i_10" -> <<(37 * k + 1) % 256, (91 * k + 18) % 256, (53 * k + 7) % 256>>
      [] OTHER -> [z16 |-> 1000 + k, y8 |-> k + 1]

\* What a read past the end of the input frame may yield (undefined behaviour).
Garbage(o) ==
    CASE o \in PixelsOps -> {0, 255}
      [] o \in Yuy2Ops   -> {[y0 |-> 0, u |-> 0, y1 |-> 0, v |-> 0], [y0 |-> 255, u |-> 255, y1 |-> 255, v |-> 255]}
      [] o = "unpack_y8_y8_from_y8i" -> {[l |-> 0, r |-> 0], [l |-> 255, r |-> 255]}
      [] o = "unpack_y16_y16_from_y12i_10" -> {<<0, 0, 0>>, <<255, 255, 255>>}
      [] OTHER -> {[z16 |-> 0, y8 |-> 0], [z16 |-> 65535, y8 |-> 255]}

\* *source: the element under the read pointer.
ReadSource == IF in \in DOMAIN source THEN {source[in]} ELSE Garbage(op)

SubdeviceMode(o, mw, mh, sw, sh) ==
    [width |-> mw, height |-> mh, fourcc |-> CodecFourcc(o),
     streams |-> [p \in 1..Len(CodecStreamFormats(o)) |->
                    [width |-> sw, height |-> sh, format |-> CodecStreamFormats(o)[p]]]]

\* Caller-allocated planes, sized by the stream's width and height.
Planes(m) == [p \in 0..(Len(m.streams) - 1) |->
                [i \in 0..(m.streams[p + 1].width * m.streams[p + 1].height - 1) |-> 0]]

BitfieldOrders == {"lsb_first", "msb_first"}

\* Frames of every geometry, holding the test pattern.
CodecInitGeometry ==
    /\ op \in CodecOps
    /\ \E mw \in 1..MaxCodecW, mh \in 1..MaxCodecH :
         /\ mw % MacropixelWidth(CodecFourcc(op)) = 0
         /\ \E sw \in 1..mw, sh \in 1..mh : mode = SubdeviceMode(op, mw, mh, sw, sh)
         /\ source = [k \in 0..(ElementCount(op, mw, mh) - 1) |-> PatternElement(op, k)]
    /\ bitfield_order \in IF op = "unpack_y16_y16_from_y12i_10" THEN BitfieldOrders ELSE {"lsb_first"}

\* Small frames of every sample value.
CodecInitValues ==
    \/ /\ op = "unpack_y16_from_y8"
       /\ mode = SubdeviceMode(op, 2, 1, 2, 1)
       /\ \E a \in 0..255 : \E b \in {0, IF a < 255 THEN a + 1 ELSE a, 255} : source = [k \in 0..1 |-> IF k = 0 THEN a ELSE b]
       /\ bitfield_order = "lsb_first"
    \/ /\ op = "unpack_y16_from_y16_10"
       /\ mode = SubdeviceMode(op, 2, 1, 2, 1)
       /\ \E a \in 0..1023 : \E b \in {0, IF a < 1023 THEN a + 1 ELSE a, 1023} : source = [k \in 0..1 |-> IF k = 0 THEN a ELSE b]
       /\ bitfield_order = "lsb_first"
    \/ /\ op = "unpack_y16_y16_from_y12i_10"
       /\ mode = SubdeviceMode(op, 1, 1, 1, 1)
       /\ \E b0 \in ByteSamples, b1 \in ByteSamples, b2 \in ByteSamples : source = [k \in 0..0 |-> <<b0, b1, b2>>]
       /\ bitfield_order \in BitfieldOrders

CodecInit ==
    /\ pc = "call"
    /\ build \in Builds
    /\ (CodecInitGeometry \/ CodecInitValues)
    /\ dest = Planes(mode)
    /\ in = 0 /\ outp = 0 /\ x = 0 /\ y = 0 /\ writes = <<>>
    /\ ret = [kind |-> "none"]
    /\ SizeIdle /\ AlignIdle

\* ---- the loops

\* *p = v for a plane pointer p at pixel index i.  A store past the end of the plane is
\* recorded in `writes'; the memory it lands in is not part of the model.
Store(d, plane, i, v) == IF i \in DOMAIN d[plane] THEN [d EXCEPT ![plane][i] = v] ELSE d

\* The entry of a codec: its assert, then the pointers and counters set up.
CodecEnter(pre) ==
    /\ pc = "call"
    /\ pc' = IF build = "debug" /\ ~pre THEN "aborted" ELSE "loop"
    /\ in' = 0 /\ outp' = 0 /\ x' = 0 /\ y' = 0
    /\ UNCHANGED <<op, build, ret, sizevars, mode, source, dest, writes, bitfield_order, alignvars>>

unpack_pixels_enter ==
    /\ op \in PixelsOps
    /\ CodecEnter(/\ Len(mode.streams) = 1
                  /\ mode.streams[1].width <= mode.width
                  /\ mode.streams[1].height <= mode.height
                  /\ mode.streams[1].format = "Y16")

unpack_pixel(o, s) == IF o = "unpack_y16_from_y8" THEN unpack_y16_from_y8(s) ELSE unpack_y16_from_y16_10(s)

\* *out++ = unpack(*source++);
unpack_pixels_iter ==
    /\ op \in PixelsOps /\ pc = "loop"
    /\ y < mode.streams[1].height /\ x < mode.streams[1].width
    /\ \E s \in ReadSource :
         /\ dest' = Store(dest, 0, outp, unpack_pixel(op, s))
         /\ writes' = Append(writes, <<0, outp>>)
    /\ outp' = outp + 1 /\ in' = in + 1 /\ x' = x + 1
    /\ UNCHANGED <<op, pc, build, ret, sizevars, mode, source, y, bitfield_order, alignvars>>

\* source += mode.width - mode.streams[0].width;
unpack_pixels_row_skip(i) == i + (mode.width - mode.streams[1].width)

unpack_pixels_row ==
    /\ op \in PixelsOps /\ pc = "loop"
    /\ y < mode.streams[1].height /\ x >= mode.streams[1].width
    /\ in' = unpack_pixels_row_skip(in)
    /\ y' = y + 1 /\ x' = 0
    /\ UNCHANGED <<op, pc, build, ret, sizevars, mode, source, dest, outp, writes, bitfield_order, alignvars>>

unpack_from_yuy2_enter ==
    /\ op \in Yuy2Ops
    /\ CodecEnter(/\ mode.fourcc = "YUY2" /\ Len(mode.streams) = 1
                  /\ mode.streams[1].width <= mode.width
                  /\ mode.streams[1].height <= mode.height
                  /\ mode.streams[1].format = CodecStreamFormats(op)[1])

\* *out++ = unpack(in->y0 - 16, ...); *out++ = unpack(in->y1 - 16, ...); ++in;   (x += 2)
unpack_from_yuy2_iter ==
    /\ op \in Yuy2Ops /\ pc = "loop"
    /\ y < mode.streams[1].height /\ x < mode.streams[1].width
    /\ \E m \in ReadSource :
         /\ dest' = Store(Store(dest, 0, outp, unpack_yuy2(op, m.y0 - 16, m.u - 128, m.v - 128)),
                          0, outp + 1, unpack_yuy2(op, m.y1 - 16, m.u - 128, m.v - 128))
         /\ writes' = writes \o << <<0, outp>>, <<0, outp + 1>> >>
    /\ outp' = outp + 2 /\ in' = in + 1 /\ x' = x + 2
    /\ UNCHANGED <<op, pc, build, ret, sizevars, mode, source, y, bitfield_order, alignvars>>

\* in += mode.width - mode.streams[0].width;   (in points to macropixels)
unpack_from_yuy2_row ==
    /\ op \in Yuy2Ops /\ pc = "loop"
    /\ y < mode.streams[1].height /\ x >= mode.streams[1].width
    /\ in' = in + (mode.width - mode.streams[1].width)
    /\ y' = y + 1 /\ x' = 0
    /\ UNCHANGED <<op, pc, build, ret, sizevars, mode, source, dest, outp, writes, bitfield_order, alignvars>>

split_frame_enter ==
    /\ op \in SplitOps
    /\ CodecEnter(/\ mode.fourcc = CodecFourcc(op) /\ Len(mode.streams) = 2
                  /\ mode.streams[1].format = CodecStreamFormats(op)[1]
                  /\ mode.streams[2].format = CodecStreamFormats(op)[2]
                  /\ mode.streams[1].width = mode.streams[2].width
                  /\ mode.streams[1].height = mode.streams[2].height
                  /\ mode.streams[1].width <= mode.width
                  /\ mode.streams[1].height <= mode.height)

\* *a++ = split_a(*source); *b++ = split_b(*source++);
split_frame_iter ==
    /\ op \in SplitOps /\ pc = "loop"
    /\ y < mode.streams[1].height /\ x < mode.streams[1].width
    /\ \E s \in ReadSource :
         /\ dest' = Store(Store(dest, 0, outp, split_a(op, s, bitfield_order)),
                          1, outp, split_b(op, s, bitfield_order))
         /\ writes' = writes \o << <<0, outp>>, <<1, outp>> >>
    /\ outp' = outp + 1 /\ in' = in + 1 /\ x' = x + 1
    /\ UNCHANGED <<op, pc, build, ret, sizevars, mode, source, y, bitfield_order, alignvars>>

\* source += mode.width - mode.streams[0].width;
split_frame_row ==
    /\ op \in SplitOps /\ pc = "loop"
    /\ y < mode.streams[1].height /\ x >= mode.streams[1].width
    /\ in' = in + (mode.width - mode.streams[1].width)
    /\ y' = y + 1 /\ x' = 0
    /\ UNCHANGED <<op, pc, build, ret, sizevars, mode, source, dest, outp, writes, bitfield_order, alignvars>>

\* The outer loop ends and the codec returns.
codec_return ==
    /\ op \in CodecOps /\ pc = "loop"
    /\ y >= mode.streams[1].height
    /\ pc' = "done"
    /\ ret' = ReturnVoid
    /\ UNCHANGED <<op, build, sizevars, codecvars, alignvars>>

CodecNext ==
    \/ unpack_pixels_enter \/ unpack_pixels_iter \/ unpack_pixels_row
    \/ unpack_from_yuy2_enter \/ unpack_from_yuy2_iter \/ unpack_from_yuy2_row
    \/ split_frame_enter \/ split_frame_iter \/ split_frame_row
    \/ codec_return

SpecCodec == CodecInit /\ [][CodecNext]_vars

\* Stream pixel (px, py) of a decoded frame: its index in the output plane, and the
\* index of the input pixel at the same place of the input frame.
StreamW == mode.streams[1].width
StreamH == mode.streams[1].height
StreamPixels == (0..(StreamW - 1)) \X (0..(StreamH - 1))
PlaneIndex(q) == q[2] * StreamW + q[1]
InputIndex(q) == q[2] * mode.width + q[1]

C3_InputPixel(q) ==
    LET m == source[q[2] * (mode.width \div 2) + q[1] \div 2]
    IN  unpack_yuy2(op, (IF q[1] % 2 = 0 THEN m.y0 ELSE m.y1) - 16, m.u - 128, m.v - 128)

\* C3: the YUY2 decoders, for every stream no larger than the mode (also narrower than
\* it), put at output pixel (x, y) the colour conversion of input pixel (x, y): luma
\* sample x % 2 of the macropixel at (x / 2, y) of an input row of mode.width / 2
\* macropixels.  The output is the top-left sub-rectangle of the decoded input.
C3_TopLeftSubrect ==
    (op \in Yuy2Ops /\ pc = "done")
        => \A q \in StreamPixels : dest[0][PlaneIndex(q)] = C3_InputPixel(q)

\* C4: every codec loop, for every mode whose streams are no larger than the input and
\* whose input width is a multiple of the macropixel width (stream widths of either
\* parity), stores exactly once to each pixel index of [0, stream.width * stream.height)
\* of each output plane, and nowhere else.
C4_EachPixelWrittenOnce ==
    (op \in CodecOps /\ pc = "done")
        => \A p \in DOMAIN dest :
             /\ \A k \in 1..Len(writes) :
                  writes[k][1] = p => writes[k][2] \in 0..(StreamW * StreamH - 1)
             /\ \A i \in 0..(StreamW * StreamH - 1) :
                  Cardinality({k \in 1..Len(writes) : writes[k] = <<p, i>>}) = 1

C6_Monotone ==
    \A q1 \in StreamPixels, q2 \in StreamPixels :
        source[InputIndex(q1)] <= source[InputIndex(q2)]
            => dest[0][PlaneIndex(q1)] <= dest[0][PlaneIndex(q2)]
C6_Maps(from, to) ==
    \A q \in StreamPixels : source[InputIndex(q)] = from => dest[0][PlaneIndex(q)] = to

\* C6 (as amended): bit-depth expansion is monotonic: unpack_y16_from_y8 is
\* non-decreasing over 0..255 and maps 0 to 0 and 255 to 65535; unpack_y16_from_y16_10
\* is non-decreasing over 0..1023 and maps 0 to 0 and 1023 to 65472 (1023 << 6).
C6_ExpansionMonotone ==
    /\ (op = "unpack_y16_from_y8" /\ pc = "done")
         => C6_Monotone /\ C6_Maps(0, 0) /\ C6_Maps(255, 65535)
    /\ (op = "unpack_y16_from_y16_10" /\ pc = "done")
         => C6_Monotone /\ C6_Maps(0, 0) /\ C6_Maps(1023, 65472)
C6_Witness ==
    /\ op = "unpack_y16_from_y16_10" /\ pc = "done"
    /\ source = [k \in 0..1 |-> 1022 + k]
    /\ dest[0] = [k \in 0..1 |-> 65408 + 64 * k]

\* C6 (as claimed): both expansions are non-decreasing and full-scale preserving:
\* 0 maps to 0, 255 to 65535 for Y8, and 1023 to 65535 for the 10-bit expansion.
C6_FullScalePreserved ==
    /\ (op = "unpack_y16_from_y8" /\ pc = "done")
         => C6_Monotone /\ C6_Maps(0, 0) /\ C6_Maps(255, 65535)
    /\ (op = "unpack_y16_from_y16_10" /\ pc = "done")
         => C6_Monotone /\ C6_Maps(0, 0) /\ C6_Maps(1023, 65535)

C7_Left(b)  == IF bitfield_order = "lsb_first" THEN (b[3] * 16) + (b[2] \div 16)
                                               ELSE (b[3] * 16) + (b[2] % 16)
C7_Right(b) == IF bitfield_order = "lsb_first" THEN ((b[2] % 16) * 256) + b[1]
                                               ELSE ((b[2] \div 16) * 256) + b[1]
C7_Expand(v) == BitOr(v * 64, v \div 16) % 65536

\* C7 (as amended): unpack_y16_y16_from_y12i_10 gives plane 0 the low 16 bits of
\* (left << 6) | (left >> 4) and plane 1 those of (right << 6) | (right >> 4), with
\* left = (lh << 4) | ll and right = (rh << 8) | rl.  left and right are 12-bit values
\* (at most 4095; nothing limits them to 1023).  Bytes 0xFF 0xF0 0xFF decode to
\* left = 0xFFFF, right = 0x3FCF where rh is the low nibble of the second byte, and to
\* left = 0xFCFF, right = 0xFFFF where rh is its high nibble.
C7_Y12iSplit ==
    (op = "unpack_y16_y16_from_y12i_10" /\ pc = "done")
        => \A q \in StreamPixels :
             LET b == source[InputIndex(q)]
             IN  /\ dest[0][PlaneIndex(q)] = C7_Expand(C7_Left(b))
                 /\ dest[1][PlaneIndex(q)] = C7_Expand(C7_Right(b))
                 /\ C7_Left(b) <= 4095 /\ C7_Right(b) <= 4095
                 /\ b = <<255, 240, 255>>
                      => IF bitfield_order = "lsb_first"
                         THEN dest[0][PlaneIndex(q)] = 65535 /\ dest[1][PlaneIndex(q)] = 16335
                         ELSE dest[0][PlaneIndex(q)] = 64767 /\ dest[1][PlaneIndex(q)] = 65535
C7_Witness ==
    /\ op = "unpack_y16_y16_from_y12i_10" /\ pc = "done" /\ bitfield_order = "lsb_first"
    /\ source = [k \in 0..0 |-> <<255, 240, 255>>]
    /\ dest[0][0] = 65535 /\ dest[1][0] = 16335

\* C7 (as claimed): the planes receive the 16-bit expansions of left and right, left and
\* right are 10-bit values (at most 1023), and bytes 0xFF 0xF0 0xFF decode to
\* left = 0xFFFF and right = 0xFFFF.
C7_TenBitAndExample ==
    (op = "unpack_y16_y16_from_y12i_10" /\ pc = "done")
        => \A q \in StreamPixels :
             LET b == source[InputIndex(q)]
             IN  /\ dest[0][PlaneIndex(q)] = C7_Expand(C7_Left(b))
                 /\ dest[1][PlaneIndex(q)] = C7_Expand(C7_Right(b))
                 /\ C7_Left(b) <= 1023 /\ C7_Right(b) <= 1023
                 /\ b = <<255, 240, 255>>
                      => dest[0][PlaneIndex(q)] = 65535 /\ dest[1][PlaneIndex(q)] = 65535

(***************************************************************************)
(* Image alignment and rectification                                       *)
(***************************************************************************)

\* Bound of the depth (or rectified) image: its number of pixels.
MaxPixels == 4

Dims == {d \in (1..MaxPixels) \X (1..MaxPixels) : d[1] * d[2] <= MaxPixels}
OtherDims == {<<1, 1>>, <<2, 1>>, <<2, 2>>}
DepthValues == {0, 1, 2}                 \* raw 16-bit depths
DepthScales == {0, 1, 2}
Translations == {<<0, 0>>, <<-2, 0>>, <<-1, 2>>}

\* rsutil.h, for a pinhole camera without distortion, focal length 1 and principal
\* point (0, 0), and extrinsics that translate in the image plane.  Points carry their
\* coordinates exactly; a projected pixel is the pair of fractions <<nx, ny>> / den.
rs_deproject_pixel_to_point(pixel, depth) == <<pixel[1] * depth, pixel[2] * depth, depth>>
rs_transform_point_to_point(extrin, point) == <<point[1] + extrin[1], point[2] + extrin[2], point[3]>>
rs_project_point_to_pixel(point) == [nx |-> point[1], ny |-> point[2], den |-> point[3]]

\* (int)std::round(n / d) for d > 0: halfway cases round away from zero.
round(n, d) == IF n >= 0 THEN (2 * n + d) \div (2 * d) ELSE -((d - 2 * n) \div (2 * d))

\* The get_depth lambdas: raw depth times depth_scale; 1.0f for the rectification table.
get_depth_unscaled(i) == IF op = "compute_rectification_table" THEN 1 ELSE depth_pixels[i]
get_depth(i) == IF op = "compute_rectification_table" THEN 1 ELSE depth_pixels[i] * depth_scale

\* other_x, other_y of the depth pixel at (px, py) with depth d.
other_pixel(px, py, d) ==
    LET q == rs_project_point_to_pixel(
                 rs_transform_point_to_point(depth_to_other,
                     rs_deproject_pixel_to_point(<<px, py>>, d)))
    IN  <<round(q.nx, q.den), round(q.ny, q.den)>>

\* The negation of the test that skips a pixel projected outside the other image.
in_other_image(o) ==
    ~(o[1] < 0 \/ o[2] < 0 \/ o[1] >= other_intrin.width \/ o[2] >= other_intrin.height)

\* The switch of align_color_to_depth and of rectify_image: bytes per pixel, 0 for default.
bytes_N(format) ==
    CASE format = "Y8" -> 1
      [] format \in {"Y16", "Z16"} -> 2
      [] format \in {"RGB8", "BGR8"} -> 3
      [] format \in {"RGBA8", "BGRA8"} -> 4
      [] OTHER -> 0

\* The transfer_pixel lambdas.
transfer_scaled_depth(o, di, ci) == [o EXCEPT ![ci] = depth_pixels[di] * depth_scale]
transfer_depth_to_color(o, di, ci) == [o EXCEPT ![ci] = depth_pixels[di]]

transfer_color_first_byte(o, n, di, ci) == [o EXCEPT ![n * di] = color_pixels[n * ci]]
transfer_color_to_depth(o, n, di, ci) ==
    [k \in DOMAIN o |-> IF k \in (n * di)..(n * di + n - 1)
                        THEN color_pixels[n * ci + (k - n * di)] ELSE o[k]]

transfer_rectification_on_copy(t, ri, ui) == t
transfer_rectification(t, ri, ui) == [t EXCEPT ![ri] = ui]

\* Bytes per pixel of a buffer of the given format.
PixelSize(format) == get_image_size_format(1, 1, format, "release").value

Zeroed(n) == [k \in 0..(n - 1) |-> 0]
\* The bytes of the other image: every byte differs from the others and from zero.
ColorBytes(n) == [k \in 0..(n - 1) |-> k + 1]

AlignInitCommon ==
    /\ pc = "call"
    /\ ret = [kind |-> "none"]
    /\ \E d \in Dims : depth_intrin = [width |-> d[1], height |-> d[2]]
    /\ \E d \in OtherDims : other_intrin = [width |-> d[1], height |-> d[2]]
    /\ depth_to_other \in Translations
    /\ depth_x = 0 /\ depth_y = 0 /\ depth_pixel_index = 0 /\ calls = <<>>
    /\ SizeIdle /\ CodecIdle

DepthInit ==
    /\ depth_pixels \in [0..(depth_intrin.width * depth_intrin.height - 1) -> DepthValues]
    /\ depth_scale \in DepthScales

\* assert() is reached only through the default case of the format switches.
BuildInit == build \in IF bytes_N(color_format) = 0 THEN Builds ELSE {"debug"}

DepthToColorInit ==
    /\ op = "align_depth_to_color"
    /\ AlignInitCommon /\ DepthInit
    /\ build = "debug"
    /\ color_format = "Z16"
    /\ color_pixels = <<>>
    /\ out = Zeroed(other_intrin.width * other_intrin.height)
    /\ out0 = out
    /\ rectification_table = <<>>

ColorToDepthInit ==
    /\ op = "align_color_to_depth"
    /\ AlignInitCommon /\ DepthInit
    /\ color_format \in Formats
    /\ BuildInit
    /\ color_pixels = ColorBytes(other_intrin.width * other_intrin.height * PixelSize(color_format))
    /\ out = Zeroed(depth_intrin.width * depth_intrin.height * PixelSize(color_format))
    /\ out0 = out
    /\ rectification_table = <<>>

RectificationInit ==
    /\ op = "compute_rectification_table"
    /\ AlignInitCommon
    /\ depth_pixels = <<>> /\ depth_scale = 0
    /\ color_format \in Formats
    /\ BuildInit
    /\ color_pixels = ColorBytes(other_intrin.width * other_intrin.height * PixelSize(color_format))
    /\ out = Zeroed(depth_intrin.width * depth_intrin.height * PixelSize(color_format))
    /\ out0 = out
    /\ rectification_table = <<>>

AlignUnchangedInputs ==
    UNCHANGED <<build, sizevars, codecvars, depth_intrin, other_intrin, depth_to_other,
                depth_pixels, depth_scale, color_pixels, color_format, out0>>

align_depth_to_color_enter ==
    /\ op = "align_depth_to_color" /\ pc = "call"
    /\ pc' = "loop"
    /\ depth_y' = 0 /\ depth_x' = 0 /\ depth_pixel_index' = 0
    /\ UNCHANGED <<op, ret, out, rectification_table, calls>>
    /\ AlignUnchangedInputs

\* switch(color_format): a byte width, or default: assert(false) and fall out of the switch.
align_color_to_depth_enter ==
    /\ op = "align_color_to_depth" /\ pc = "call"
    /\ IF bytes_N(color_format) # 0
       THEN pc' = "loop" /\ ret' = ret
       ELSE IF build = "debug" THEN pc' = "aborted" /\ ret' = Abort
                               ELSE pc' = "done" /\ ret' = ReturnVoid
    /\ depth_y' = 0 /\ depth_x' = 0 /\ depth_pixel_index' = 0
    /\ UNCHANGED <<op, out, rectification_table, calls>>
    /\ AlignUnchangedInputs

\* rectification_table.resize(rect_intrin.width * rect_intrin.height);
compute_rectification_table_enter ==
    /\ op = "compute_rectification_table" /\ pc = "call"
    /\ rectification_table' = Zeroed(depth_intrin.width * depth_intrin.height)
    /\ pc' = "loop"
    /\ depth_y' = 0 /\ depth_x' = 0 /\ depth_pixel_index' = 0
    /\ UNCHANGED <<op, ret, out, calls>>
    /\ AlignUnchangedInputs

AlignOps == {"align_depth_to_color", "align_color_to_depth", "compute_rectification_table"}

\* transfer_pixel(depth_pixel_index, other_index), by caller.
TransferPixel(di, ci) ==
    /\ calls' = Append(calls, <<di, ci>>)
    /\ CASE op = "align_depth_to_color" ->
              /\ out' = transfer_depth_to_color(out, di, ci)
              /\ UNCHANGED rectification_table
         [] op = "align_color_to_depth" ->
              /\ out' = transfer_color_to_depth(out, bytes_N(color_format), di, ci)
              /\ UNCHANGED rectification_table
         [] op = "compute_rectification_table" ->
              /\ rectification_table' = transfer_rectification(rectification_table, di, ci)
              /\ UNCHANGED out

\* One pass of the inner loop of align_images, then ++depth_x, ++depth_pixel_index.
align_images_iter ==
    /\ op \in AlignOps /\ pc = "loop"
    /\ depth_y < depth_intrin.height /\ depth_x < depth_intrin.width
    /\ LET depth == get_depth(depth_pixel_index)
           o == other_pixel(depth_x, depth_y, depth)
       IN  IF depth # 0 /\ in_other_image(o)
           THEN TransferPixel(depth_pixel_index, o[2] * other_intrin.width + o[1])
           ELSE UNCHANGED <<out, rectification_table, calls>>
    /\ depth_x' = depth_x + 1
    /\ depth_pixel_index' = depth_pixel_index + 1
    /\ UNCHANGED <<op, pc, ret, depth_y>>
    /\ AlignUnchangedInputs

\* The inner loop ends: ++depth_y, and depth_x starts again at 0.
align_images_row ==
    /\ op \in AlignOps /\ pc = "loop"
    /\ depth_y < depth_intrin.height /\ depth_x >= depth_intrin.width
    /\ depth_y' = depth_y + 1 /\ depth_x' = 0
    /\ UNCHANGED <<op, pc, ret, out, rectification_table, calls, depth_pixel_index>>
    /\ AlignUnchangedInputs

\* The outer loop ends and the caller of align_images returns.
align_images_return ==
    /\ op \in AlignOps /\ pc = "loop"
    /\ depth_y >= depth_intrin.height
    /\ pc' = "done"
    /\ ret' = IF op = "compute_rectification_table" THEN Return(rectification_table) ELSE ReturnVoid
    /\ UNCHANGED <<op, out, rectification_table, calls, depth_x, depth_y, depth_pixel_index>>
    /\ AlignUnchangedInputs

\* for(auto entry : rectification_table) *rect_pixels++ = unrect_pixels[entry];
rectify_image_pixels(n) ==
    [k \in DOMAIN out |-> IF k \div n \in DOMAIN rectification_table
                          THEN color_pixels[n * rectification_table[k \div n] + (k % n)]
                          ELSE out[k]]

\* rectify_image, called with the table compute_rectification_table returned.
rectify_image ==
    /\ op = "compute_rectification_table" /\ pc = "done"
    /\ op' = "rectify_image"
    /\ IF bytes_N(color_format) # 0
       THEN /\ out' = rectify_image_pixels(bytes_N(color_format))
            /\ pc' = "done" /\ ret' = ReturnVoid
       ELSE /\ out' = out
            /\ IF build = "debug" THEN pc' = "aborted" /\ ret' = Abort
                                  ELSE pc' = "done" /\ ret' = ReturnVoid
    /\ UNCHANGED <<rectification_table, calls, depth_x, depth_y, depth_pixel_index>>
    /\ AlignUnchangedInputs

DepthToColorNext ==
    \/ align_depth_to_color_enter
    \/ align_images_iter \/ align_images_row \/ align_images_return

SpecDepthToColor == DepthToColorInit /\ [][DepthToColorNext]_vars

AlignInit == DepthToColorInit \/ ColorToDepthInit \/ RectificationInit

AlignNext ==
    \/ align_depth_to_color_enter \/ align_color_to_depth_enter
    \/ compute_rectification_table_enter
    \/ align_images_iter \/ align_images_row \/ align_images_return
    \/ rectify_image

SpecAlign == AlignInit /\ [][AlignNext]_vars

\* compute_rectification_table, then rectify_image with the table it returned.
RectificationNext ==
    \/ compute_rectification_table_enter
    \/ align_images_iter \/ align_images_row \/ align_images_return
    \/ rectify_image

SpecRectification == RectificationInit /\ [][RectificationNext]_vars

\* What the claims say of depth pixel i: its coordinates, its scaled depth, its rounded
\* projection, and whether that lies inside the other image.
PixelX(i) == i % depth_intrin.width
PixelY(i) == i \div depth_intrin.width
DepthIndices == 0..(depth_intrin.width * depth_intrin.height - 1)
FetchedDepth(i) == IF op \in {"compute_rectification_table", "rectify_image"}
                   THEN 1 ELSE depth_pixels[i] * depth_scale
Projection(i) == other_pixel(PixelX(i), PixelY(i), FetchedDepth(i))
Transferred(i) ==
    /\ FetchedDepth(i) # 0
    /\ 0 <= Projection(i)[1] /\ Projection(i)[1] < other_intrin.width
    /\ 0 <= Projection(i)[2] /\ Projection(i)[2] < other_intrin.height
OtherIndex(i) == Projection(i)[2] * other_intrin.width + Projection(i)[1]
SetMax(S) == CHOOSE m \in S : \A e \in S : e <= m

C1_Writers(j) == {i \in DepthIndices : Transferred(i) /\ OtherIndex(i) = j}

\* C1: align_depth_to_color on a zero-filled output: afterwards out[j], for every index
\* j of the other image, is the raw depth of the last depth pixel in raster order that
\* has non-zero scaled depth and whose rounded projection is pixel j; it is zero if
\* there is none.  The stored value is the raw depth, not the scaled one.
C1_LastWriterWins ==
    (op = "align_depth_to_color" /\ pc = "done")
        => \A j \in 0..(other_intrin.width * other_intrin.height - 1) :
             out[j] = IF C1_Writers(j) = {} THEN 0 ELSE depth_pixels[SetMax(C1_Writers(j))]
C1_Witness ==
    /\ op = "align_depth_to_color" /\ pc = "done" /\ depth_scale = 2
    /\ \E j \in DOMAIN out : \E i1 \in C1_Writers(j), i2 \in C1_Writers(j) :
         /\ i1 < i2 /\ depth_pixels[i1] # depth_pixels[i2]
         /\ out[j] = depth_pixels[i2]
    /\ \E j \in DOMAIN out : C1_Writers(j) = {} /\ out[j] = 0

C2_AlignImagesCalled ==
    \/ op \in {"align_depth_to_color", "compute_rectification_table"}
    \/ op = "align_color_to_depth" /\ bytes_N(color_format) # 0

\* C2: over one call of align_images the transfer callback is invoked exactly once, with
\* (y * Wd + x, oy * Wo + ox), for every depth pixel whose fetched depth is non-zero and
\* whose rounded projection (ox, oy) is inside the other image, never for another depth
\* pixel, and in increasing order of depth index.
C2_TransferCalls ==
    (C2_AlignImagesCalled /\ pc = "done")
        => /\ Len(calls) = Cardinality({i \in DepthIndices : Transferred(i)})
           /\ \A k \in 1..Len(calls) :
                /\ calls[k][1] \in DepthIndices /\ Transferred(calls[k][1])
                /\ calls[k][2] = OtherIndex(calls[k][1])
           /\ \A k \in 1..(Len(calls) - 1) : calls[k][1] < calls[k + 1][1]
C2_Witness ==
    /\ op = "align_depth_to_color" /\ pc = "done"
    /\ Len(calls) >= 2
    /\ \E i \in DepthIndices : depth_pixels[i] = 0
    /\ \E i \in DepthIndices : FetchedDepth(i) # 0 /\ ~Transferred(i)

C5_PixelBytes(buf, n, i) == [b \in 0..(n - 1) |-> buf[n * i + b]]
C5_Written(i) == Cardinality({k \in 1..Len(calls) : calls[k][1] = i})
C5_Output ==
    (op = "align_color_to_depth" /\ pc = "done" /\ bytes_N(color_format) \in 1..4)
        => \A i \in DepthIndices :
             LET n == bytes_N(color_format)
             IN  IF Transferred(i)
                 THEN /\ C5_Written(i) = 1
                      /\ C5_PixelBytes(out, n, i) = C5_PixelBytes(color_pixels, n, OtherIndex(i))
                 ELSE /\ C5_Written(i) = 0
                      /\ C5_PixelBytes(out, n, i) = C5_PixelBytes(out0, n, i)

\* C5: align_color_to_depth for pixel width N in {1,2,3,4}: every depth index is written
\* at most once; index i is written, with out[i] = in_other[other_index(i)], exactly when
\* depth pixel i has non-zero scaled depth and a projection inside the other image; every
\* other output pixel is left as it was, and the colour and depth inputs are not modified.
C5_ColorToDepth ==
    /\ []C5_Output
    /\ [][op = "align_color_to_depth"
            => color_pixels' = color_pixels /\ depth_pixels' = depth_pixels]_vars
C5_Witness ==
    /\ op = "align_color_to_depth" /\ pc = "done" /\ color_format = "RGB8"
    /\ \E i \in DepthIndices : Transferred(i) /\ OtherIndex(i) # i
                               /\ C5_PixelBytes(out, 3, i) = C5_PixelBytes(color_pixels, 3, OtherIndex(i))
    /\ \E i \in DepthIndices : ~Transferred(i) /\ C5_PixelBytes(out, 3, i) = [b \in 0..2 |-> 0]

\* C10: align_color_to_depth and rectify_image called with format YUYV are rejected with
\* an UnsupportedFormat error surfaced to the caller, and the output buffer is left as
\* it was before the call.
C10_YuyvRejected ==
    (/\ color_format = "YUYV"
     /\ \/ op = "align_color_to_depth" /\ pc # "call"
        \/ op = "rectify_image")
        => ret.kind = "UnsupportedFormat" /\ out = out0

C11_TableReturned ==
    \/ op = "compute_rectification_table" /\ pc = "done"
    \/ op = "rectify_image"
\* The table as a function of the two intrinsics and the extrinsics alone.
C11_Table == [i \in DepthIndices |-> IF Transferred(i) THEN OtherIndex(i) ELSE 0]
C11_UnrectIndices == 0..(other_intrin.width * other_intrin.height - 1)
C11_Rectified ==
    LET n == bytes_N(color_format)
    IN  \A i \in DepthIndices : \A b \in 0..(n - 1) :
          /\ n * rectification_table[i] + b \in DOMAIN color_pixels
          /\ out[n * i + b] = color_pixels[n * rectification_table[i] + b]

\* C11: compute_rectification_table returns a table of exactly rect.width * rect.height
\* entries, every one of which, the entries of rectified pixels that reproject outside
\* the unrectified image included, lies in [0, unrect.width * unrect.height); the table
\* is determined by the two intrinsics and the extrinsics alone, so two builds from the
\* same inputs are identical; and rectify_image sets rect[i] = unrect[table[i]] for
\* every i without reading outside the unrectified buffer.
C11_TableInRange ==
    /\ C11_TableReturned =>
          /\ DOMAIN rectification_table = DepthIndices
          /\ \A i \in DepthIndices : rectification_table[i] \in C11_UnrectIndices
          /\ rectification_table = C11_Table
    /\ (op = "compute_rectification_table" /\ pc = "done")
          => ret = Return(rectification_table)
    /\ (op = "rectify_image" /\ pc = "done" /\ bytes_N(color_format) # 0)
          => C11_Rectified
C11_Witness ==
    /\ op = "rectify_image" /\ pc = "done" /\ color_format = "RGB8"
    /\ \E i \in DepthIndices : ~Transferred(i) /\ rectification_table[i] = 0
                               /\ out[3 * i + 2] = color_pixels[2]
    /\ \E i \in DepthIndices : Transferred(i) /\ rectification_table[i] \notin {0, i}
                               /\ out[3 * i] = color_pixels[3 * rectification_table[i]]

====
